---- MODULE Spec2Model ----
(***************************************************************************)
(* Model of the random-number difference canister (src/project/src.rs).    *)
(*                                                                         *)
(* A u64 is a little-endian sequence of 8 bytes (index 1 = least           *)
(* significant), a u32 a sequence of 4 bytes, so that the 64-bit           *)
(* wraparound of the generator is computed at its true width.  An i32 is   *)
(* an integer in MinI32..MaxI32; the exact (unbounded) value of an i32     *)
(* expression is a pair <<hi, lo>> standing for hi * 65536 + lo with       *)
(* lo \in 0..65535.                                                        *)
(***************************************************************************)
EXTENDS Integers, Sequences, FiniteSets, TLC

\* ------------------------------------------------------------------ bounds

\* Number of calculate_difference calls explored in one behaviour.
MaxCalls == 3

\* -------------------------------------------------------------- u64 and u32

\* The u64 whose value is n, for 0 <= n < 2^31.
U64(n) ==
    << n % 256, (n \div 256) % 256, (n \div 65536) % 256, n \div 16777216,
       0, 0, 0, 0 >>

\* u64::wrapping_add: byte-wise addition from byte k on with the carry into
\* it; the carry out of byte 8 is dropped.
RECURSIVE AddFrom(_, _, _, _)
AddEmit(a, b, k, s) == <<s % 256>> \o AddFrom(a, b, k + 1, s \div 256)

AddFrom(a, b, k, carry) ==
    IF k > 8 THEN <<>> ELSE AddEmit(a, b, k, a[k] + b[k] + carry)

wrapping_add(a, b) == AddFrom(a, b, 1, 0)

\* u64::wrapping_mul: schoolbook multiplication, bytes above the 8th dropped.
\* ColSum is the sum of the byte products that land on byte k.
RECURSIVE ColSum(_, _, _, _)
ColSum(a, b, k, i) ==
    IF i > k THEN 0 ELSE a[i] * b[k + 1 - i] + ColSum(a, b, k, i + 1)

RECURSIVE MulFrom(_, _, _, _)
MulEmit(a, b, k, s) == <<s % 256>> \o MulFrom(a, b, k + 1, s \div 256)

MulFrom(a, b, k, carry) ==
    IF k > 8 THEN <<>> ELSE MulEmit(a, b, k, ColSum(a, b, k, 1) + carry)

wrapping_mul(a, b) == MulFrom(a, b, 1, 0)

\* `x >> 16` on a u64: two bytes are shifted out, zeros shifted in.
shr16(x) == <<x[3], x[4], x[5], x[6], x[7], x[8], 0, 0>>

\* `x as u32` on a u64: the low four bytes.
as_u32(x) == <<x[1], x[2], x[3], x[4]>>

\* `x % m` on a u32, for 0 < m <= 2^16, as an integer in 0..m-1.
RECURSIVE RemFrom(_, _, _)
RemFrom(x, m, k) ==
    IF k > 4 THEN 0 ELSE (RemFrom(x, m, k + 1) * 256 + x[k]) % m

u32_rem(x, m) == RemFrom(x, m, 1)

\* ---------------------------------------------------------------------- i32

MaxI32 == 2147483647
MinI32 == -MaxI32 - 1

\* Exact integers: <<hi, lo>> is hi * 65536 + lo.
Wide(n) == <<n \div 65536, n % 65536>>

WSub(x, y) ==
    IF x[2] >= y[2] THEN <<x[1] - y[1], x[2] - y[2]>>
    ELSE <<x[1] - y[1] - 1, x[2] - y[2] + 65536>>

WNeg(x) == WSub(<<0, 0>>, x)

WAbs(x) == IF x[1] < 0 THEN WNeg(x) ELSE x

\* The exact value fits an i32.
InI32(x) == x[1] >= -32768 /\ x[1] <= 32767

\* The i32 an exact value wraps to (two's complement, 32 bits).
WrapI32(x) == (((x[1] + 32768) % 65536) - 32768) * 65536 + x[2]

\* i32 `a - b`: the exact value, whether it overflows, and the wrapped value.
i32_sub(a, b) ==
    LET exact == WSub(Wide(a), Wide(b))
    IN [overflow |-> ~InI32(exact), value |-> WrapI32(exact)]

\* i32::abs: overflows on i32::MIN only, where the wrapped value is i32::MIN.
i32_abs(a) ==
    LET exact == WAbs(Wide(a))
    IN [overflow |-> ~InI32(exact), value |-> WrapI32(exact)]

\* `n as i32` on a u32 value n given as an integer: values above i32::MAX
\* are reinterpreted as negative.
as_i32(n) == IF n > MaxI32 THEN (n - MaxI32 - 1) + MinI32 ELSE n

\* ------------------------------------------------------------ the program

\* The LCG's multiplier and increment (line 22).
Multiplier == 1664525
Increment == 1013904223

\* Readings of ic_cdk::api::time() (nanoseconds, u64), in increasing order:
\* 0, 196608, 262144, 1700000000000000000 and 2^64 - 1.
ClockValues ==
    << U64(0),
       U64(196608),
       U64(262144),
       <<0, 0, 42, 54, 254, 156, 151, 23>>,
       <<255, 255, 255, 255, 255, 255, 255, 255>> >>

\* Arguments of calculate_difference: the ends of the i32 range, the values
\* around MinI32 + 100, and values around the generated range 1..100.
UserInputs == {MinI32, MinI32 + 100, MinI32 + 101, -1, 50, MaxI32}

\* Arguments given to the second run of the same call sequence.
ShadowInputs == {MinI32, 7}

\* Mutant of next_state: the increment is added before the multiplication.
next_state_add_first(rng, time_seed) ==
    wrapping_add(
        wrapping_mul(wrapping_add(rng, U64(Increment)), U64(Multiplier)),
        time_seed)

\* Mutant of next_state: the clock reading is left out of the update.
next_state_no_clock(rng, time_seed) ==
    wrapping_add(wrapping_mul(rng, U64(Multiplier)), U64(Increment))

\* Line 22: the seed after the update.
next_state(rng, time_seed) ==
    wrapping_add(
        wrapping_add(wrapping_mul(rng, U64(Multiplier)), U64(Increment)),
        time_seed)

\* Mutant of generate_random_number: the value is drawn from the seed as it
\* was before the update.
generate_random_number_stale(rng, time_seed) ==
    [rng |-> wrapping_add(
                 wrapping_add(wrapping_mul(rng, U64(Multiplier)),
                              U64(Increment)),
                 time_seed),
     value |-> <<rng[3], rng[4], rng[5], rng[6]>>]

\* Line 23: the value returned, drawn from the seed `rng` holds when the
\* closure ends.
drawn(rng) == as_u32(shr16(rng))

\* Lines 17-25: the seed left in RNG_STATE and the u32 returned.
generate_random_number(rng, time_seed) ==
    [rng |-> next_state(rng, time_seed),
     value |-> drawn(next_state(rng, time_seed))]

\* Mutant of random_number_of: the `+ 1` is missing.
random_number_of_no_offset(random_u32) == as_i32(u32_rem(random_u32, 100))

\* Line 31: the u32 mapped to 1..100.
random_number_of(random_u32) == as_i32(u32_rem(random_u32, 100)) + 1

\* Mutant of difference_of: the subtraction without `.abs()`.
difference_of_no_abs(user_input, random_number, checks) ==
    [overflow |-> i32_sub(user_input, random_number).overflow,
     panic |-> checks /\ i32_sub(user_input, random_number).overflow,
     value |-> i32_sub(user_input, random_number).value]

\* Line 34: (user_input - random_number).abs() in i32 arithmetic.  An
\* overflowing operation panics when the build checks overflow and wraps
\* otherwise; abs is not reached when the subtraction panics.
difference_of(user_input, random_number, checks) ==
    [overflow |-> i32_sub(user_input, random_number).overflow
                  \/ i32_abs(i32_sub(user_input, random_number).value).overflow,
     panic |-> checks
               /\ (i32_sub(user_input, random_number).overflow
                   \/ i32_abs(i32_sub(user_input, random_number).value).overflow),
     value |-> i32_abs(i32_sub(user_input, random_number).value).value]

\* Mutant of RandomResult: random_number and difference change places.
RandomResult_swapped(user_input, random_number, d) ==
    IF d.panic THEN {}
    ELSE {[user_input |-> user_input,
           random_number |-> d.value,
           difference |-> random_number]}

\* Lines 36-40: the struct returned, absent when line 34 panicked.
RandomResult(user_input, random_number, d) ==
    IF d.panic THEN {}
    ELSE {[user_input |-> user_input,
           random_number |-> random_number,
           difference |-> d.value]}

\* random_u32 with the low byte of user_input added into its low byte.
mixed_with(random_u32, user_input) ==
    << (random_u32[1] + (user_input % 256)) % 256,
       random_u32[2], random_u32[3], random_u32[4] >>

\* Mutant of finish_calculate_difference: the argument is mixed into the
\* drawn value before it is mapped to 1..100.
finish_calculate_difference_mixed(user_input, random_u32, checks) ==
    [panic |-> difference_of(user_input,
                             random_number_of(mixed_with(random_u32, user_input)),
                             checks).panic,
     overflow |-> difference_of(user_input,
                                random_number_of(mixed_with(random_u32,
                                                            user_input)),
                                checks).overflow,
     ret |-> RandomResult(user_input,
                          random_number_of(mixed_with(random_u32, user_input)),
                          difference_of(user_input,
                                        random_number_of(mixed_with(random_u32,
                                                                    user_input)),
                                        checks))]

\* Lines 31-40: the rest of calculate_difference once random_u32 is drawn.
finish_calculate_difference(user_input, random_u32, checks) ==
    [panic |-> difference_of(user_input, random_number_of(random_u32),
                             checks).panic,
     overflow |-> difference_of(user_input, random_number_of(random_u32),
                                checks).overflow,
     ret |-> RandomResult(user_input, random_number_of(random_u32),
                          difference_of(user_input, random_number_of(random_u32),
                                        checks))]

\* Mutant of get_info_text: the platform suffix is missing.
get_info_text_short == "Random Number Difference Calculator"

\* Lines 43-46: the string get_info returns.
get_info_text ==
    "Random Number Difference Calculator - Built on Internet Computer"

VARIABLES
    RNG_STATE,        \* the thread-local u64 seed
    overflow_checks,  \* build profile: arithmetic overflow panics (debug) or wraps
    now,              \* index in ClockValues of the latest clock reading, 0 at start
    pc,               \* the last entry point executed
    result,           \* {r}: calculate_difference returned r; {}: nothing yet / panic
    panicked,         \* the last calculate_difference panicked
    user_input,       \* the argument of the last calculate_difference
    overflowed,       \* an i32 operation of the last call overflowed
    info,             \* the last string get_info returned, "" before any
    clocks,           \* the clock readings of the calls so far
    outputs,          \* per call, the set holding the random_number returned
    RNG_STATE_B,      \* second run: same start, same clock readings, other inputs
    result_B,
    panicked_B,
    outputs_B

vars ==
    << RNG_STATE, overflow_checks, now, pc, result, panicked, user_input,
       overflowed, info, clocks, outputs, RNG_STATE_B, result_B, panicked_B,
       outputs_B >>

Init ==
    /\ RNG_STATE = U64(1)
    /\ overflow_checks \in BOOLEAN
    /\ now = 0
    /\ pc = "init"
    /\ result = {}
    /\ panicked = FALSE
    /\ user_input = 0
    /\ overflowed = FALSE
    /\ info = ""
    /\ clocks = <<>>
    /\ outputs = <<>>
    /\ RNG_STATE_B = U64(1)
    /\ result_B = {}
    /\ panicked_B = FALSE
    /\ outputs_B = <<>>

\* #[update] calculate_difference (lines 27-41): the host hands the call a
\* clock reading no earlier than the previous one; the second run makes the
\* same call with the same reading and its own argument.
calculate_difference ==
    /\ Len(clocks) < MaxCalls
    /\ \E t \in 1..Len(ClockValues) :
          /\ t >= now
          /\ now' = t
          /\ clocks' = Append(clocks, ClockValues[t])
          /\ \E g \in {generate_random_number(RNG_STATE, ClockValues[t])},
                h \in {generate_random_number(RNG_STATE_B, ClockValues[t])} :
                /\ RNG_STATE' = g.rng
                /\ RNG_STATE_B' = h.rng
                /\ \E u \in UserInputs, v \in ShadowInputs :
                      \E a \in {finish_calculate_difference(u, g.value,
                                                            overflow_checks)},
                         b \in {finish_calculate_difference(v, h.value,
                                                            overflow_checks)} :
                         /\ result' = a.ret
                         /\ panicked' = a.panic
                         /\ user_input' = u
                         /\ overflowed' = a.overflow
                         /\ outputs' =
                               Append(outputs, {r.random_number : r \in a.ret})
                         /\ result_B' = b.ret
                         /\ panicked_B' = b.panic
                         /\ outputs_B' =
                               Append(outputs_B, {r.random_number : r \in b.ret})
    /\ pc' = "calculate_difference"
    /\ UNCHANGED <<overflow_checks, info>>

\* #[query] get_info.
get_info ==
    /\ info' = get_info_text
    /\ pc' = "get_info"
    /\ UNCHANGED << RNG_STATE, overflow_checks, now, result, panicked,
                    user_input, overflowed, clocks, outputs, RNG_STATE_B,
                    result_B, panicked_B, outputs_B >>

Next == calculate_difference \/ get_info

Spec == Init /\ [][Next]_vars

\* ------------------------------------------------- reference definitions

\* A call has been made and the latest one returned.
Returned == pc # "init" /\ Len(clocks) > 0 /\ ~panicked

\* The exact |a - b| of two i32 values.
ExactAbsDiff(a, b) == WAbs(WSub(Wide(a), Wide(b)))

\* A u64 as four 16-bit digits, least significant first.
Digits(x) ==
    <<x[1] + 256 * x[2], x[3] + 256 * x[4], x[5] + 256 * x[6], x[7] + 256 * x[8]>>

\* (seed * 1664525 + 1013904223 + clock) mod 2^64 on 16-bit digits, with
\* 1664525 = 25 * 2^16 + 26125 and 1013904223 = 15470 * 2^16 + 62303.
\* Column k sums digit k of seed * 26125, of (seed * 25) * 2^16, of the
\* increment and of the clock; what exceeds 2^16 carries into column k + 1.
RECURSIVE LcgColumns(_, _, _, _, _, _)
LcgEmit(s, c, k, total, lowCarry, highCarry) ==
    <<total % 65536>>
        \o LcgColumns(s, c, k + 1, total \div 65536, lowCarry, highCarry)

LcgColumns(s, c, k, carry, lowCarry, highCarry) ==
    IF k > 4 THEN <<>>
    ELSE LcgEmit(s, c, k,
                 ((s[k] * 26125 + lowCarry) % 65536)
                     + (IF k = 1 THEN 0 ELSE (s[k - 1] * 25 + highCarry) % 65536)
                     + (IF k = 1 THEN 62303 ELSE IF k = 2 THEN 15470 ELSE 0)
                     + c[k] + carry,
                 (s[k] * 26125 + lowCarry) \div 65536,
                 IF k = 1 THEN 0 ELSE (s[k - 1] * 25 + highCarry) \div 65536)

LcgStep(seed, clock) == LcgColumns(Digits(seed), Digits(clock), 1, 0, 0, 0)

\* The digits of the seed after the calls whose clock readings are the
\* first n of ts, starting from seed 1.
RECURSIVE LcgAfter(_, _)
LcgAfter(ts, n) ==
    IF n = 0 THEN <<1, 0, 0, 0>>
    ELSE LcgColumns(LcgAfter(ts, n - 1), Digits(ts[n]), 1, 0, 0, 0)

\* Bits 16..47 of a u64, reduced modulo 100 (2^16 mod 100 = 36).
Bits16To47Mod100(x) == ((Digits(x)[3] % 100) * 36 + Digits(x)[2]) % 100

AllOnes == <<255, 255, 255, 255, 255, 255, 255, 255>>

\* ----------------------------------------------------------------- claims

\* C1: every random_number that calculate_difference returns, for any
\* argument, seed and clock reading, satisfies 1 <= random_number <= 100.
C1_RandomNumberInRange ==
    \A r \in result \cup result_B :
        r.random_number >= 1 /\ r.random_number <= 100

\* C1 witness: a call returned the top of the range, 100.
C1_Witness ==
    /\ Returned
    /\ \E r \in result : r.random_number = 100

\* C2: the difference returned equals the exact |user_input - random_number|
\* of the same result, for every i32 argument.
C2_DifferenceExact ==
    \A r \in result :
        Wide(r.difference) = ExactAbsDiff(r.user_input, r.random_number)

\* C3: no i32 argument makes calculate_difference fault: nothing overflows,
\* and the difference returned is an i32 with 0 <= difference <= 2^31 - 1.
C3_NoOverflowFault ==
    /\ ~panicked
    /\ ~overflowed
    /\ \A r \in result : r.difference >= 0 /\ r.difference <= MaxI32

\* C4: two runs from the initial seed that receive the same clock readings
\* return the same random_number in every call (compared wherever both
\* calls returned).
C4_SameClockSameNumbers ==
    /\ Len(outputs) = Len(outputs_B)
    /\ \A i \in 1..Len(outputs) :
          \A x \in outputs[i], y \in outputs_B[i] : x = y

\* C4 witness: two calls made, every call of both runs returned, and the
\* arguments of the latest calls differ.
C4_Witness ==
    /\ Len(outputs) >= 2
    /\ \A i \in 1..Len(outputs) : outputs[i] # {} /\ outputs_B[i] # {}
    /\ \E r \in result, q \in result_B : r.user_input # q.user_input

\* C5: every get_info call returns the literal description, whatever calls
\* preceded it, and leaves the seed unchanged.
C5_GetInfoConstantNoEffect ==
    [][pc' = "get_info" =>
          /\ info' = "Random Number Difference Calculator - Built on Internet Computer"
          /\ RNG_STATE' = RNG_STATE]_vars

\* C5 witness: get_info has run after two calculate_difference calls.
C5_Witness ==
    /\ pc = "get_info"
    /\ Len(clocks) >= 2
    /\ info # ""

\* C6 as stated: the first call from the initial state with clock reading 0
\* takes the seed from 1 to 1015569748.
C6_FirstSeedAsStated ==
    (Len(clocks) = 1 /\ clocks[1] = U64(0)) => RNG_STATE = U64(1015569748)

\* C6 amended: the first call from the initial state with clock reading 0
\* takes the seed from 1 to 1 * 1664525 + 1013904223 + 0 = 1015568748.
C6_FirstSeed ==
    (Len(clocks) = 1 /\ clocks[1] = U64(0)) =>
        Digits(RNG_STATE) = <<1015568748 % 65536, 1015568748 \div 65536, 0, 0>>

\* C6 witness: exactly one call has been made, with clock reading 0.
C6_Witness ==
    /\ pc = "calculate_difference"
    /\ Len(clocks) = 1
    /\ clocks[1] = U64(0)

\* C7: the seed starts at 1 and each calculate_difference call replaces it
\* by (seed * 1664525 + 1013904223 + clock) mod 2^64, once, wrapping; after
\* n calls it is the n-fold recurrence over their clock readings, and
\* nothing else changes it.
C7_SeedIsLcgOfClocks ==
    /\ Digits(RNG_STATE) = LcgAfter(clocks, Len(clocks))
    /\ (Len(clocks) = 0 => RNG_STATE = U64(1))

\* C7 witness: get_info ran after two calls, the latest with clock reading
\* 2^64 - 1, so the sum wrapped around.
C7_Witness ==
    /\ pc = "get_info"
    /\ Len(clocks) >= 2
    /\ clocks[Len(clocks)] = AllOnes

\* C8: the random_number of a call is bits 16..47 of the seed after that
\* call's update, reduced modulo 100, plus 1.
C8_NumberFromUpdatedSeed ==
    \A r \in result : r.random_number = Bits16To47Mod100(RNG_STATE) + 1

\* C8 witness: the second call returned, with a seed above 2^48.
C8_Witness ==
    /\ Returned
    /\ Len(clocks) >= 2
    /\ result # {}
    /\ Digits(RNG_STATE)[4] > 0

\* C9: for user_input >= -2^31 + 101 the i32 computation does not overflow
\* and returns the exact |user_input - random_number|; an overflow happens
\* only for user_input in -2^31 .. -2^31 + 100.
C9_OverflowOnlyNearMin ==
    Len(clocks) > 0 =>
        /\ user_input >= MinI32 + 101 =>
              /\ ~overflowed
              /\ ~panicked
              /\ \E r \in result :
                    /\ r.user_input = user_input
                    /\ Wide(r.difference)
                          = ExactAbsDiff(user_input, r.random_number)
        /\ overflowed => user_input <= MinI32 + 100

\* C9 witness: user_input = -2^31 + 101 met random_number = 100, and the
\* difference returned is 2^31 - 1.
C9_Witness ==
    /\ user_input = MinI32 + 101
    /\ \E r \in result : r.random_number = 100 /\ r.difference = MaxI32

\* C10: two calls from the same seed with the same clock reading and
\* different user_input leave the same seed and return the same
\* random_number; the results differ at most in user_input and difference.
C10_InputDoesNotReachGenerator ==
    /\ RNG_STATE = RNG_STATE_B
    /\ \A r \in result, q \in result_B : r.random_number = q.random_number

\* C10 witness: both runs returned from calls with different arguments and
\* different differences.
C10_Witness ==
    /\ Returned
    /\ \E r \in result, q \in result_B :
          r.user_input # q.user_input /\ r.difference # q.difference

====
